---- MODULE Spec2Model ----
(***************************************************************************)
(* Model of action_counts.py: the pipeline that filters Trello Action      *)
(* records, classifies them into Events, counts them by (date, event),     *)
(* regroups the counts by date, turns them into running totals and pivots  *)
(* the totals into flat rows.                                              *)
(*                                                                         *)
(* Texts that the code takes apart (action types such as                   *)
(* "updateCard:closed") are sequences of their ':'-separated segments, so  *)
(* that parse_action is the partition it is in the code.  A date is the    *)
(* ordinal of a calendar day.  A dict is the sequence of its entries in    *)
(* insertion order wherever the code iterates over it.                     *)
(***************************************************************************)
EXTENDS Integers, Sequences, FiniteSets, TLC

\* ---- bounds of the model ----
MaxDate == 2
MaxLen == 2
MaxDay == 3
MaxPairs == 3
MaxRows == 2
MaxRowTotal == 2
MaxCalls == 3
MaxRules == 3
MaxPassRules == 2

\* ---- values the inputs are drawn from ----
Dates == 1..MaxDate
ListNames == {"Doing", "Done"}
Cards == {"A"}
copyCard == <<"copyCard">>
createCard == <<"createCard">>
moveCardToBoard == <<"moveCardToBoard">>
convertToCardFromCheckItem == <<"convertToCardFromCheckItem">>
deleteCard == <<"deleteCard">>
moveCardFromBoard == <<"moveCardFromBoard">>
updateCard == <<"updateCard">>
updateCard_closed == <<"updateCard", "closed">>
updateCard_idList == <<"updateCard", "idList">>
commentCard == <<"commentCard">>
CreateTypes == {copyCard, createCard, moveCardToBoard, convertToCardFromCheckItem}
RemoveTypes == {deleteCard, moveCardFromBoard}
ActionTypes ==
    CreateTypes \cup RemoveTypes
        \cup {updateCard, updateCard_closed, updateCard_idList, commentCard}

\* class Action(NamedTuple); raw, the source document, is never read by a
\* stage after make_action and is left out of the record.
Action == [date : Dates, action : ActionTypes, card : Cards, list : ListNames]

\* The Actions the source iterator of a pipeline run is drawn from.
SourceTypes ==
    {createCard, deleteCard, updateCard, updateCard_closed, updateCard_idList,
     commentCard}
SourceActions == [date : Dates, action : SourceTypes, card : Cards, list : ListNames]

\* The arguments single calls of classify are drawn from; "" is the list name
\* make_action_list gives a document without a list.
ClassifyListNames == ListNames \cup {""}
ClassifyActions ==
    [date : Dates, action : ActionTypes, card : {"A", "5f1"}, list : ClassifyListNames]

\* Event = Enum('Event', ['ignore', 'create', 'remove', 'finish']), in
\* definition order, which is the order of iteration over Event.
EventOrder == <<"ignore", "create", "remove", "finish">>
Event == {EventOrder[i] : i \in 1..Len(EventOrder)}

\* What next() raises on an exhausted iterator; a call's outcome is the value
\* it returns or this.
StopIteration == <<"StopIteration">>

first_takes_last(iterable) ==
    IF iterable = <<>> THEN StopIteration ELSE iterable[Len(iterable)]

\* first = lambda iterable: next(iterable)
first(iterable) == IF iterable = <<>> THEN StopIteration ELSE Head(iterable)

\* parse_action = lambda type_text: type_text.partition(':')[0]
parse_action(type_text) == <<type_text[1]>>

\* ---- rule types: RULE(*args)(action) is RULE(args..., action) ----
MATCH_ACTION_TYPE(type_text, action) == action.action = type_text

MATCH_IN_LIST(list_names, action) == action.list \in list_names

MATCH_NOT_LIST_inverted(list_names, action) == action.list \in list_names

MATCH_NOT_LIST(list_names, action) == action.list \notin list_names

MATCH_ACTION_TYPE_IN_LIST_verbatim(type_text, list_names, action) ==
    action.action = type_text /\ action.list \in list_names

MATCH_ACTION_TYPE_IN_LIST(type_text, list_names, action) ==
    action.action = parse_action(type_text) /\ action.list \in list_names

MATCH_ACTION_TYPE_NOT_LIST_inverted(type_text, list_names, action) ==
    action.action = parse_action(type_text) /\ action.list \in list_names

MATCH_ACTION_TYPE_NOT_LIST(type_text, list_names, action) ==
    action.action = parse_action(type_text) /\ action.list \notin list_names

\* rule_type(*args)(action) for a rule tuple of either rule list
ApplyRule(rule, action) ==
    CASE rule.rule_type = "MATCH_ACTION_TYPE" ->
            MATCH_ACTION_TYPE(rule.args[1], action)
      [] rule.rule_type = "MATCH_IN_LIST" ->
            MATCH_IN_LIST(rule.args[1], action)
      [] rule.rule_type = "MATCH_NOT_LIST" ->
            MATCH_NOT_LIST(rule.args[1], action)
      [] rule.rule_type = "MATCH_ACTION_TYPE_IN_LIST" ->
            MATCH_ACTION_TYPE_IN_LIST(rule.args[1], rule.args[2], action)
      [] rule.rule_type = "MATCH_ACTION_TYPE_NOT_LIST" ->
            MATCH_ACTION_TYPE_NOT_LIST(rule.args[1], rule.args[2], action)

ClassifierRule(rule_type, args, event) ==
    [rule_type |-> rule_type, args |-> args, event |-> event]

build_action_event_rules_slip(finished_lists) ==
    << ClassifierRule("MATCH_ACTION_TYPE", <<copyCard>>, "create"),
       ClassifierRule("MATCH_ACTION_TYPE", <<createCard>>, "create"),
       ClassifierRule("MATCH_ACTION_TYPE", <<moveCardToBoard>>, "create"),
       ClassifierRule("MATCH_ACTION_TYPE", <<convertToCardFromCheckItem>>, "create"),
       ClassifierRule("MATCH_ACTION_TYPE", <<deleteCard>>, "remove"),
       ClassifierRule("MATCH_ACTION_TYPE", <<moveCardFromBoard>>, "create"),
       ClassifierRule("MATCH_ACTION_TYPE_IN_LIST",
                      <<updateCard_closed, finished_lists>>, "finish"),
       ClassifierRule("MATCH_ACTION_TYPE_IN_LIST",
                      <<updateCard_idList, finished_lists>>, "finish"),
       ClassifierRule("MATCH_ACTION_TYPE_NOT_LIST",
                      <<updateCard_idList, finished_lists>>, "ignore") >>

build_action_event_rules(finished_lists) ==
    << ClassifierRule("MATCH_ACTION_TYPE", <<copyCard>>, "create"),
       ClassifierRule("MATCH_ACTION_TYPE", <<createCard>>, "create"),
       ClassifierRule("MATCH_ACTION_TYPE", <<moveCardToBoard>>, "create"),
       ClassifierRule("MATCH_ACTION_TYPE", <<convertToCardFromCheckItem>>, "create"),
       ClassifierRule("MATCH_ACTION_TYPE", <<deleteCard>>, "remove"),
       ClassifierRule("MATCH_ACTION_TYPE", <<moveCardFromBoard>>, "remove"),
       ClassifierRule("MATCH_ACTION_TYPE_IN_LIST",
                      <<updateCard_closed, finished_lists>>, "finish"),
       ClassifierRule("MATCH_ACTION_TYPE_IN_LIST",
                      <<updateCard_idList, finished_lists>>, "finish"),
       ClassifierRule("MATCH_ACTION_TYPE_NOT_LIST",
                      <<updateCard_idList, finished_lists>>, "ignore") >>

\* the action kinds the rules of build_action_event_rules test for
ConfiguredKinds ==
    {parse_action(build_action_event_rules({})[i].args[1]) :
        i \in 1..Len(build_action_event_rules({}))}

PassRule(rule_type, args) == [rule_type |-> rule_type, args |-> args]

build_pass_rules(reject_lists) == << PassRule("MATCH_NOT_LIST", <<reject_lists>>) >>

\* ---- action_event_iter ----
\* The tuples the generator expression inside classify yields, None filtered
\* out: one (date, event, action) per matching rule, in rule order.
ClassifyMatches(classifier_rules, action) ==
    LET Matching(rule) == ApplyRule(rule, action)
        matched == SelectSeq(classifier_rules, Matching)
    IN  [i \in 1..Len(matched) |-> <<action.date, matched[i].event, action>>]

\* classify = lambda action: first(filter(None, (...)))
classify(classifier_rules, action) ==
    first(ClassifyMatches(classifier_rules, action))

\* pass_filter = lambda action: all(rule(action) for rule in rule_partials).
\* rule_partials is ONE generator over pass_rules, shared by every call: a
\* call resumes it where the previous call left it.  consumed is the number
\* of pass rules the generator has yielded so far.  all() stops at the first
\* false rule, having consumed it, or at the end of the generator.
PassFailing(pass_rules, consumed, action) ==
    {i \in (consumed + 1)..Len(pass_rules) : ~ApplyRule(pass_rules[i], action)}

SetMin(S) == CHOOSE x \in S : \A y \in S : x <= y

pass_filter(pass_rules, consumed, action) ==
    LET failing == PassFailing(pass_rules, consumed, action)
    IN  [result |-> failing = {},
         consumed |-> IF failing = {} THEN Len(pass_rules) ELSE SetMin(failing)]

\* ---- dicts ----
\* dict.get(key, 0) of a dict held as a function on its keys
Get(d, k) == IF k \in DOMAIN d THEN d[k] ELSE 0

\* position of key in a dict held as a sequence of entries, 0 when absent
KeyIndex(entries, key) ==
    IF \E i \in 1..Len(entries) : entries[i].key = key
    THEN CHOOSE i \in 1..Len(entries) : entries[i].key = key
    ELSE 0

Keys(entries) == [i \in 1..Len(entries) |-> entries[i].key]

\* dict[key], 0 for a missing key of a Counter
Lookup(entries, key) ==
    IF KeyIndex(entries, key) = 0 THEN 0 ELSE entries[KeyIndex(entries, key)].value

\* Counter: counts[key] += 1; a new key goes to the end of the dict
CounterInc(counts, key) ==
    LET i == KeyIndex(counts, key)
    IN  IF i = 0
        THEN Append(counts, [key |-> key, value |-> 1])
        ELSE [counts EXCEPT ![i].value = @ + 1]

\* Counter(iterable) of a finite iterable
RECURSIVE CounterOf(_)
CounterOf(pairs) ==
    IF pairs = <<>> THEN <<>>
    ELSE CounterInc(CounterOf(SubSeq(pairs, 1, Len(pairs) - 1)), pairs[Len(pairs)])

\* ---- date_by_event ----
ByDateSet_replacing(by_date, date, event, n) ==
    LET i == KeyIndex(by_date, date)
    IN  IF i = 0
        THEN Append(by_date, [key |-> date, value |-> [e \in {event} |-> n]])
        ELSE [by_date EXCEPT ![i].value = [e \in {event} |-> n]]

\* by_date[date][event] = n on a defaultdict of defaultdict(int)
ByDateSet(by_date, date, event, n) ==
    LET i == KeyIndex(by_date, date)
    IN  IF i = 0
        THEN Append(by_date, [key |-> date, value |-> [e \in {event} |-> n]])
        ELSE [by_date EXCEPT ![i].value =
                 [e \in (DOMAIN @) \cup {event} |-> IF e = event THEN n ELSE @[e]]]

RECURSIVE ByDateFold(_, _)
ByDateFold(counts, k) ==
    IF k = 0 THEN <<>>
    ELSE ByDateSet(ByDateFold(counts, k - 1),
                   counts[k].key[1], counts[k].key[2],
                   Lookup(counts, counts[k].key))

date_by_event_off_by_one(counts) ==
    IF counts = <<>> THEN <<>> ELSE ByDateFold(counts, Len(counts) - 1)

date_by_event(counts) == ByDateFold(counts, Len(counts))

\* ---- running_count_iter ----
\* sorted(iterable): ascending, by repeated removal of the least element
RemoveAt(s, i) == [j \in 1..(Len(s) - 1) |-> IF j < i THEN s[j] ELSE s[j + 1]]

RECURSIVE sorted(_)
sorted_insertion_order(s) == s

sorted(s) ==
    IF s = <<>> THEN <<>>
    ELSE LET least == SetMin({s[i] : i \in 1..Len(s)})
             at == CHOOSE i \in 1..Len(s) : s[i] = least
         IN  <<least>> \o sorted(RemoveAt(s, at))

\* one pass of the loop body: for event_type in Event: running[event_type] += ...
RunningStep_reset(running, day_counts) ==
    [event_type \in Event |-> Get(day_counts, event_type)]

RunningStep(running, day_counts) ==
    [event_type \in Event |-> Get(running, event_type) + Get(day_counts, event_type)]

\* yield d, running.copy(): the rows the consumer holds after the yield.  A
\* row is a reference to its mapping; the copy is an object of its own, so
\* the rows held before keep their mappings.
YieldCopy_shared(rows, d, running) ==
    Append([i \in 1..Len(rows) |-> <<rows[i][1], running>>], <<d, running>>)

YieldCopy(rows, d, running) == Append(rows, <<d, running>>)

\* ---- pivot_for_csv ----
\* good_events = list(Event); good_events.remove(Event.ignore)
good_events == SelectSeq(EventOrder, LAMBDA e : e # "ignore")

pivot_for_csv_all_events(events, count_iter) ==
    [i \in 1..Len(count_iter) |->
        <<count_iter[i][1]>>
            \o [j \in 1..Len(EventOrder) |-> Get(count_iter[i][2], EventOrder[j])]]

pivot_for_csv_reversed(events, count_iter) ==
    [i \in 1..Len(count_iter) |->
        <<count_iter[i][1]>>
            \o [j \in 1..Len(events) |->
                    Get(count_iter[i][2], events[Len(events) + 1 - j])]]

pivot_for_csv(events, count_iter) ==
    [i \in 1..Len(count_iter) |->
        <<count_iter[i][1]>>
            \o [j \in 1..Len(events) |-> Get(count_iter[i][2], events[j])]]

\* ---- state ----
VARIABLES
    reject_lists,       \* config['reject'].split('|')
    finished_lists,     \* config['finished'].split('|')
    pc,                 \* the stage main has reached
    raw_actions,        \* the Actions the source iterator has yielded so far
    rule_partials,      \* pass rules the shared generator has yielded so far
    passed,             \* result of pass_filter for each of raw_actions
    date_event_action,  \* the triples action_event_iter has yielded so far
    ended_by,           \* what ended action_event_iter: "source" or "classify"
    date_event_counts,  \* Counter keyed by (date, event)
    date_counts,        \* date_by_event(date_event_counts)
    running,            \* the Counter running_count_iter accumulates in
    running_totals,     \* the rows running_count_iter has yielded so far
    csv_rows,           \* the rows pivot_for_csv has yielded so far
    classify_arg,       \* argument of a single classify call
    classify_result,    \* what that call returned or raised
    call_args           \* arguments of a function called on its own

vars == <<reject_lists, finished_lists, pc, raw_actions, rule_partials, passed,
          date_event_action, ended_by, date_event_counts, date_counts, running,
          running_totals, csv_rows, classify_arg, classify_result, call_args>>

None == "None"

pass_rules == build_pass_rules(reject_lists)
action_event_rules == build_action_event_rules(finished_lists)

config_vars == <<reject_lists, finished_lists, call_args>>
classify_vars == <<classify_arg, classify_result>>
iter_vars == <<raw_actions, rule_partials, passed, date_event_action, ended_by,
               date_event_counts>>
report_vars == <<date_counts, running, running_totals, csv_rows>>

\* ---- the pipeline of __main__ ----
Init ==
    /\ reject_lists \in SUBSET ListNames
    /\ finished_lists \in SUBSET ListNames
    /\ pc = "classify"
    /\ raw_actions = <<>>
    /\ rule_partials = 0
    /\ passed = <<>>
    /\ date_event_action = <<>>
    /\ ended_by = None
    /\ date_event_counts = <<>>
    /\ date_counts = <<>>
    /\ running = <<>>
    /\ running_totals = <<>>
    /\ csv_rows = <<>>
    /\ classify_arg = None
    /\ classify_result = None
    /\ call_args = None

\* The Counter pulls the next triple; filter() pulls one Action from the
\* source and pass_filter rejects it.
FilterReject(action) ==
    LET pf == pass_filter(pass_rules, rule_partials, action)
    IN  /\ pc = "classify"
        /\ Len(raw_actions) < MaxLen
        /\ ~pf.result
        /\ raw_actions' = Append(raw_actions, action)
        /\ rule_partials' = pf.consumed
        /\ passed' = Append(passed, FALSE)
        /\ UNCHANGED <<date_event_action, ended_by, date_event_counts, pc>>
        /\ UNCHANGED <<config_vars, report_vars, classify_vars>>

\* The Action passes, classify returns a triple, the Counter counts it.
ClassifyYield(action) ==
    LET pf == pass_filter(pass_rules, rule_partials, action)
        triple == classify(action_event_rules, action)
    IN  /\ pc = "classify"
        /\ Len(raw_actions) < MaxLen
        /\ pf.result
        /\ triple # StopIteration
        /\ raw_actions' = Append(raw_actions, action)
        /\ rule_partials' = pf.consumed
        /\ passed' = Append(passed, TRUE)
        /\ date_event_action' = Append(date_event_action, triple)
        /\ date_event_counts' = CounterInc(date_event_counts, <<triple[1], triple[2]>>)
        /\ UNCHANGED <<ended_by, pc>>
        /\ UNCHANGED <<config_vars, report_vars, classify_vars>>

\* The Action passes and no rule matches: next() raises StopIteration inside
\* classify, it leaves map.__next__ and the consumer takes it for the end of
\* the iterator.
ClassifyStop(action) ==
    LET pf == pass_filter(pass_rules, rule_partials, action)
        triple == classify(action_event_rules, action)
    IN  /\ pc = "classify"
        /\ Len(raw_actions) < MaxLen
        /\ pf.result
        /\ triple = StopIteration
        /\ raw_actions' = Append(raw_actions, action)
        /\ rule_partials' = pf.consumed
        /\ passed' = Append(passed, TRUE)
        /\ ended_by' = "classify"
        /\ pc' = "date_by_event"
        /\ UNCHANGED <<date_event_action, date_event_counts>>
        /\ UNCHANGED <<config_vars, report_vars, classify_vars>>

\* The source iterator is exhausted.
SourceExhausted ==
    /\ pc = "classify"
    /\ ended_by' = "source"
    /\ pc' = "date_by_event"
    /\ UNCHANGED <<raw_actions, rule_partials, passed, date_event_action,
                   date_event_counts>>
    /\ UNCHANGED <<config_vars, report_vars, classify_vars>>

\* date_counts = date_by_event(date_event_counts)
DateByEvent ==
    /\ pc = "date_by_event"
    /\ date_counts' = date_by_event(date_event_counts)
    /\ pc' = "running"
    /\ UNCHANGED <<running, running_totals, csv_rows>>
    /\ UNCHANGED <<config_vars, iter_vars, classify_vars>>

\* writerows pulls a row from pivot_for_csv, which pulls one from
\* running_count_iter: one pass of its loop over sorted(by_date_counter).
RunningCountYield ==
    LET dates == sorted(Keys(date_counts))
        n == Len(running_totals)
    IN  /\ pc = "running"
        /\ n < Len(dates)
        /\ LET d == dates[n + 1]
               total == RunningStep(running, Lookup(date_counts, d))
           IN  /\ running' = total
               /\ running_totals' = YieldCopy(running_totals, d, total)
               /\ csv_rows' = csv_rows \o pivot_for_csv(good_events, << <<d, total>> >>)
        /\ UNCHANGED <<date_counts, pc>>
        /\ UNCHANGED <<config_vars, iter_vars, classify_vars>>

\* The loop of running_count_iter ends.
RunningCountStop ==
    /\ pc = "running"
    /\ Len(running_totals) = Len(date_counts)
    /\ pc' = "done"
    /\ UNCHANGED <<config_vars, iter_vars, report_vars, classify_vars>>

Next ==
    \/ \E action \in SourceActions : FilterReject(action)
    \/ \E action \in SourceActions : ClassifyYield(action)
    \/ \E action \in SourceActions : ClassifyStop(action)
    \/ SourceExhausted
    \/ DateByEvent
    \/ RunningCountYield
    \/ RunningCountStop

Spec == Init /\ [][Next]_vars

\* ---- single calls of classify ----
InitClassify ==
    /\ reject_lists = {}
    /\ finished_lists \in SUBSET ClassifyListNames
    /\ pc = "call"
    /\ raw_actions = <<>>
    /\ rule_partials = 0
    /\ passed = <<>>
    /\ date_event_action = <<>>
    /\ ended_by = None
    /\ date_event_counts = <<>>
    /\ date_counts = <<>>
    /\ running = <<>>
    /\ running_totals = <<>>
    /\ csv_rows = <<>>
    /\ classify_arg \in ClassifyActions
    /\ classify_result = None
    /\ call_args = None

ClassifyCall ==
    /\ pc = "call"
    /\ classify_result' = classify(action_event_rules, classify_arg)
    /\ pc' = "return"
    /\ UNCHANGED <<classify_arg, config_vars, iter_vars, report_vars>>

NextClassify == ClassifyCall

SpecClassify == InitClassify /\ [][NextClassify]_vars

\* ---- the reduction stages on any stream of (date, event) pairs ----
Days == 1..MaxDay
PairStreams == UNION {[1..n -> Days \X Event] : n \in 0..MaxPairs}

InitReduce ==
    /\ reject_lists = {}
    /\ finished_lists = {}
    /\ pc = "date_by_event"
    /\ raw_actions = <<>>
    /\ rule_partials = 0
    /\ passed = <<>>
    /\ \E pairs \in PairStreams :
          /\ date_event_action =
                [i \in 1..Len(pairs) |-> <<pairs[i][1], pairs[i][2], None>>]
          /\ date_event_counts = CounterOf(pairs)
    /\ ended_by = "source"
    /\ date_counts = <<>>
    /\ running = <<>>
    /\ running_totals = <<>>
    /\ csv_rows = <<>>
    /\ classify_arg = None
    /\ classify_result = None
    /\ call_args = None

NextReduce ==
    \/ DateByEvent
    \/ RunningCountYield
    \/ RunningCountStop

SpecReduce == InitReduce /\ [][NextReduce]_vars

\* ---- single calls of pivot_for_csv ----
\* The rows a call is given: (date, mapping) pairs in any order of dates, a
\* mapping holding a count for some of the events only.
PivotDates == {1, 2}
EventBag(s) ==
    [e \in {s[i] : i \in 1..Len(s)} |-> Cardinality({i \in 1..Len(s) : s[i] = e})]
RowCounts == {EventBag(s) : s \in UNION {[1..n -> Event] : n \in 0..MaxRowTotal}}
CountRows == UNION {[1..n -> PivotDates \X RowCounts] : n \in 0..MaxRows}
EventLists == {good_events, <<"finish", "ignore", "create">>}

InitPivot ==
    /\ reject_lists = {}
    /\ finished_lists = {}
    /\ pc = "call"
    /\ raw_actions = <<>>
    /\ rule_partials = 0
    /\ passed = <<>>
    /\ date_event_action = <<>>
    /\ ended_by = None
    /\ date_event_counts = <<>>
    /\ date_counts = <<>>
    /\ running = <<>>
    /\ running_totals \in CountRows
    /\ csv_rows = <<>>
    /\ classify_arg = None
    /\ classify_result = None
    /\ call_args \in EventLists

\* list(pivot_for_csv(call_args, running_totals))
PivotCall ==
    /\ pc = "call"
    /\ csv_rows' = pivot_for_csv(call_args, running_totals)
    /\ pc' = "return"
    /\ UNCHANGED <<date_counts, running, running_totals>>
    /\ UNCHANGED <<config_vars, iter_vars, classify_vars>>

NextPivot == PivotCall

SpecPivot == InitPivot /\ [][NextPivot]_vars

\* ---- make_action and action_iter ----
\* A timestamp text is the sequence of its parts: the date (held as the
\* ordinal of its day), the separator, the clock time, the fraction and the
\* zone.  UTC_FORMAT = "%Y-%m-%dT%H:%M:%S.%fZ"
UTC_FORMAT == <<"%Y-%m-%d", "T", "%H:%M:%S", ".%f", "Z">>
ValueError == "ValueError"

\* whether one part of a text matches one part of a format; %f takes one to
\* six digits
MatchesDirective(directive, part) ==
    CASE directive = "%Y-%m-%d" -> part \in Dates
      [] directive = "%H:%M:%S" -> part \in {"12:00:00", "23:59:59"}
      [] directive = ".%f" -> part \in {".5", ".000000"}
      [] OTHER -> part = directive

\* datetime.datetime.strptime(text, format): whether it raises ValueError,
\* and the date of its value when it does not
strptime_raises(text, format) ==
    ~ /\ Len(text) = Len(format)
      /\ \A i \in 1..Len(format) : MatchesDirective(format[i], text[i])

strptime(text, format) == text[1]

make_action_date_raises_never(document) == FALSE

make_action_date_raises(document) == strptime_raises(document.date, UTC_FORMAT)

make_action_date(document) == strptime(document.date, UTC_FORMAT)

make_action_action(document) == document.type

make_action_card(document) ==
    IF "name" \in DOMAIN document.data.card
    THEN document.data.card.name
    ELSE document.data.card.id

make_action_list(document) ==
    IF "list" \in DOMAIN document.data THEN document.data.list.name
    ELSE IF "listAfter" \in DOMAIN document.data THEN document.data.listAfter.name
    ELSE ""

\* Action(**{field: transform(raw_action) ...}): date is the first field of
\* ACTION_FIELD_MAP, so a timestamp that does not parse raises before any
\* other field is made.
make_action_raises(raw_action) == make_action_date_raises(raw_action)

make_action(raw_action) ==
    [date |-> make_action_date(raw_action),
     action |-> make_action_action(raw_action),
     card |-> make_action_card(raw_action),
     list |-> make_action_list(raw_action),
     raw |-> raw_action]

\* the documents board.fetch_actions yields
Timestamp(day, form) ==
    CASE form = "micro" -> <<day, "T", "12:00:00", ".000000", "Z">>
      [] form = "tenth" -> <<day, "T", "23:59:59", ".5", "Z">>
      [] form = "no fraction" -> <<day, "T", "12:00:00", "Z">>
      [] form = "offset" -> <<day, "T", "12:00:00", ".000000", "+00:00">>
TimestampForms == {"micro", "tenth", "no fraction", "offset"}
Timestamps == {Timestamp(day, form) : day \in Dates, form \in TimestampForms}
DocumentData ==
    { [card |-> [id |-> "5f1", name |-> "A"], list |-> [name |-> "Doing"]],
      [card |-> [id |-> "5f1"], listAfter |-> [name |-> "Done"]],
      [card |-> [id |-> "5f1"]] }
Documents ==
    [date : Timestamps, type : {createCard, commentCard}, data : DocumentData]

InitExtract ==
    /\ reject_lists \in SUBSET {"Doing"}
    /\ finished_lists = {"Done"}
    /\ pc = "classify"
    /\ raw_actions = <<>>
    /\ rule_partials = 0
    /\ passed = <<>>
    /\ date_event_action = <<>>
    /\ ended_by = None
    /\ date_event_counts = <<>>
    /\ date_counts = <<>>
    /\ running = <<>>
    /\ running_totals = <<>>
    /\ csv_rows = <<>>
    /\ classify_arg = None
    /\ classify_result = None
    /\ call_args = None

\* map(make_action, ...) raises on the document pulled: the exception goes
\* up through filter, map and the Counter to the top of the script, which
\* ends.  call_args keeps the document.
MakeActionRaise(document) ==
    /\ pc = "classify"
    /\ Len(raw_actions) < MaxLen
    /\ make_action_raises(document)
    /\ pc' = "raised"
    /\ ended_by' = ValueError
    /\ call_args' = document
    /\ UNCHANGED <<reject_lists, finished_lists, raw_actions, rule_partials, passed,
                   date_event_action, date_event_counts>>
    /\ UNCHANGED <<report_vars, classify_vars>>

Made(document) == ~make_action_raises(document)

NextExtract ==
    \/ \E document \in Documents : MakeActionRaise(document)
    \/ \E document \in Documents :
          Made(document) /\ FilterReject(make_action(document))
    \/ \E document \in Documents :
          Made(document) /\ ClassifyYield(make_action(document))
    \/ \E document \in Documents :
          Made(document) /\ ClassifyStop(make_action(document))
    \/ SourceExhausted
    \/ DateByEvent
    \/ RunningCountYield
    \/ RunningCountStop

SpecExtract == InitExtract /\ [][NextExtract]_vars

\* ---- map(classify, ...) over a stream of Actions ----
\* The classify lambda of action_event_iter called on one Action after
\* another, as map does it, over rules built once.
MapActions == {action \in SourceActions : action.date = 1}

InitMap ==
    /\ reject_lists = {}
    /\ finished_lists \in SUBSET ListNames
    /\ pc = "classify"
    /\ raw_actions = <<>>
    /\ rule_partials = 0
    /\ passed = <<>>
    /\ date_event_action = <<>>
    /\ ended_by = None
    /\ date_event_counts = <<>>
    /\ date_counts = <<>>
    /\ running = <<>>
    /\ running_totals = <<>>
    /\ csv_rows = <<>>
    /\ classify_arg = None
    /\ classify_result = None
    /\ call_args = None

MapClassify_once(action) ==
    LET triple == classify(action_event_rules, action)
    IN  /\ pc = "classify"
        /\ Len(raw_actions) < MaxCalls
        /\ triple # StopIteration
        /\ raw_actions' = Append(raw_actions, action)
        /\ date_event_action' =
              Append(date_event_action,
                     IF \E i \in 1..Len(raw_actions) : raw_actions[i] = action
                     THEN <<triple[1], "ignore", triple[3]>>
                     ELSE triple)
        /\ UNCHANGED <<rule_partials, passed, ended_by, date_event_counts, pc>>
        /\ UNCHANGED <<config_vars, report_vars, classify_vars>>

\* classify returns the triple of the first rule that matches
MapClassify(action) ==
    LET triple == classify(action_event_rules, action)
    IN  /\ pc = "classify"
        /\ Len(raw_actions) < MaxCalls
        /\ triple # StopIteration
        /\ raw_actions' = Append(raw_actions, action)
        /\ date_event_action' = Append(date_event_action, triple)
        /\ UNCHANGED <<rule_partials, passed, ended_by, date_event_counts, pc>>
        /\ UNCHANGED <<config_vars, report_vars, classify_vars>>

\* no rule matches: first raises StopIteration and map ends
MapStop(action) ==
    /\ pc = "classify"
    /\ Len(raw_actions) < MaxCalls
    /\ classify(action_event_rules, action) = StopIteration
    /\ raw_actions' = Append(raw_actions, action)
    /\ ended_by' = "classify"
    /\ pc' = "done"
    /\ UNCHANGED <<rule_partials, passed, date_event_action, date_event_counts>>
    /\ UNCHANGED <<config_vars, report_vars, classify_vars>>

NextMap ==
    \/ \E action \in MapActions : MapClassify(action)
    \/ \E action \in MapActions : MapStop(action)

SpecMap == InitMap /\ [][NextMap]_vars

\* ---- classify under any rule list ----
\* Rule tuples a caller of action_event_iter may configure, several of them
\* satisfied by the same Action under different events.
RulePool ==
    { ClassifierRule("MATCH_ACTION_TYPE", <<createCard>>, "create"),
      ClassifierRule("MATCH_ACTION_TYPE", <<updateCard>>, "ignore"),
      ClassifierRule("MATCH_ACTION_TYPE_IN_LIST", <<createCard, {"Done"}>>, "finish"),
      ClassifierRule("MATCH_ACTION_TYPE_IN_LIST", <<updateCard_idList, {"Done"}>>, "finish"),
      ClassifierRule("MATCH_ACTION_TYPE_NOT_LIST", <<createCard, {"Done"}>>, "remove") }
RuleLists == UNION {[1..n -> RulePool] : n \in 1..MaxRules}
RuleListActions ==
    [date : {1}, action : {createCard, updateCard}, card : Cards, list : ListNames]

InitRuleList ==
    /\ reject_lists = {}
    /\ finished_lists = {}
    /\ pc = "call"
    /\ raw_actions = <<>>
    /\ rule_partials = 0
    /\ passed = <<>>
    /\ date_event_action = <<>>
    /\ ended_by = None
    /\ date_event_counts = <<>>
    /\ date_counts = <<>>
    /\ running = <<>>
    /\ running_totals = <<>>
    /\ csv_rows = <<>>
    /\ classify_arg \in RuleListActions
    /\ classify_result = None
    /\ call_args \in RuleLists

\* classify(action) inside action_event_iter(pass_rules, call_args, ...)
RuleListCall ==
    /\ pc = "call"
    /\ classify_result' = classify(call_args, classify_arg)
    /\ pc' = "return"
    /\ UNCHANGED <<classify_arg, config_vars, iter_vars, report_vars>>

NextRuleList == RuleListCall

SpecRuleList == InitRuleList /\ [][NextRuleList]_vars

\* ---- action_event_iter under a list of several pass rules ----
PassRulePool ==
    { PassRule("MATCH_NOT_LIST", << {"Doing"} >>),
      PassRule("MATCH_NOT_LIST", << {"Done"} >>),
      PassRule("MATCH_IN_LIST", << {"Doing", "Done"} >>) }
PassRuleLists == UNION {[1..n -> PassRulePool] : n \in 2..MaxPassRules}
FilterActions ==
    [date : {1}, action : {createCard}, card : Cards, list : ClassifyListNames]

InitFilter ==
    /\ reject_lists = {}
    /\ finished_lists = {}
    /\ pc = "classify"
    /\ raw_actions = <<>>
    /\ rule_partials = 0
    /\ passed = <<>>
    /\ date_event_action = <<>>
    /\ ended_by = None
    /\ date_event_counts = <<>>
    /\ date_counts = <<>>
    /\ running = <<>>
    /\ running_totals = <<>>
    /\ csv_rows = <<>>
    /\ classify_arg = None
    /\ classify_result = None
    /\ call_args \in PassRuleLists

\* filter(pass_filter, action_iter) drops the Action
FilterDrop(action) ==
    LET pf == pass_filter(call_args, rule_partials, action)
    IN  /\ pc = "classify"
        /\ Len(raw_actions) < MaxCalls
        /\ ~pf.result
        /\ raw_actions' = Append(raw_actions, action)
        /\ rule_partials' = pf.consumed
        /\ passed' = Append(passed, FALSE)
        /\ UNCHANGED <<date_event_action, ended_by, date_event_counts, pc>>
        /\ UNCHANGED <<config_vars, report_vars, classify_vars>>

\* the Action passes and classify makes its triple
FilterPass(action) ==
    LET pf == pass_filter(call_args, rule_partials, action)
    IN  /\ pc = "classify"
        /\ Len(raw_actions) < MaxCalls
        /\ pf.result
        /\ raw_actions' = Append(raw_actions, action)
        /\ rule_partials' = pf.consumed
        /\ passed' = Append(passed, TRUE)
        /\ date_event_action' =
              Append(date_event_action, classify(action_event_rules, action))
        /\ UNCHANGED <<ended_by, date_event_counts, pc>>
        /\ UNCHANGED <<config_vars, report_vars, classify_vars>>

NextFilter ==
    \/ \E action \in FilterActions : FilterDrop(action)
    \/ \E action \in FilterActions : FilterPass(action)

SpecFilter == InitFilter /\ [][NextFilter]_vars

\* ---- single applications of the pass predicate ----
\* reject = lambda action: all(rule_type(*args)(action) for rule_type, args
\* in PASS_RULES): the predicate over the rules of build_pass_rules, every
\* application iterating over the rule list afresh.
reject(rules, action) == pass_filter(rules, 0, action).result

Raws == {"document 1", "document 2"}
PassActions ==
    [date : Dates, action : ActionTypes, card : {"A", "5f1"},
     list : ClassifyListNames, raw : Raws]

InitPass ==
    /\ reject_lists \in SUBSET ClassifyListNames
    /\ finished_lists = {}
    /\ pc = "call"
    /\ raw_actions = <<>>
    /\ rule_partials = 0
    /\ passed = <<>>
    /\ date_event_action = <<>>
    /\ ended_by = None
    /\ date_event_counts = <<>>
    /\ date_counts = <<>>
    /\ running = <<>>
    /\ running_totals = <<>>
    /\ csv_rows = <<>>
    /\ classify_arg = None
    /\ classify_result = None
    /\ call_args \in PassActions

PassCall ==
    /\ pc = "call"
    /\ raw_actions' = Append(raw_actions, call_args)
    /\ passed' = Append(passed, reject(pass_rules, call_args))
    /\ pc' = "return"
    /\ UNCHANGED <<rule_partials, date_event_action, ended_by, date_event_counts>>
    /\ UNCHANGED <<config_vars, report_vars, classify_vars>>

NextPass == PassCall

SpecPass == InitPass /\ [][NextPass]_vars

\* ======================= claims =======================

\* the events of the rows and triples below
TripleOf(action, event) == <<action.date, event, action>>

\* C1: a record whose list_name is in the excluded list is never emitted by
\* action_event_iter as a (date, category, record) triple, whatever its
\* position in the stream, and so is counted in no output row.
C1_ExcludedNeverEmitted ==
    \A i \in 1..Len(date_event_action) :
        date_event_action[i][3].list \notin reject_lists

\* C2: a record that passed the filter and satisfies none of the
\* classification rules is emitted with the category ignore.
C2_NoMatchIsIgnore ==
    \A i \in 1..Len(raw_actions) :
        (passed[i] /\ ClassifyMatches(action_event_rules, raw_actions[i]) = <<>>)
            => \E j \in 1..Len(date_event_action) :
                  date_event_action[j] = TripleOf(raw_actions[i], "ignore")

\* the records of raw_actions[1..k] that passed the filter, in input order
RECURSIVE PassedActions(_)
PassedActions(k) ==
    IF k = 0 THEN <<>>
    ELSE IF passed[k] THEN Append(PassedActions(k - 1), raw_actions[k])
         ELSE PassedActions(k - 1)

\* C3: action_event_iter yields exactly one triple for each record that
\* passes the filter, in input order, and classifying a record never ends or
\* shortens the output.
C3_OneTriplePerPassed ==
    LET through == PassedActions(Len(raw_actions))
    IN  /\ ended_by # "classify"
        /\ Len(date_event_action) = Len(through)
        /\ \A j \in 1..Len(date_event_action) :
              /\ date_event_action[j][3] = through[j]
              /\ date_event_action[j][1] = through[j].date

\* number of input records dated d or earlier, on a list that is not
\* excluded, that the standard rule table classifies as event
InputCount(d, event) ==
    Cardinality({k \in 1..Len(raw_actions) :
        /\ raw_actions[k].date <= d
        /\ raw_actions[k].list \notin reject_lists
        /\ classify(action_event_rules, raw_actions[k])
              = TripleOf(raw_actions[k], event)})

\* C4: end to end, the output row for date d is [d, c, r, f], the numbers of
\* input records dated d or earlier, not excluded, that the rule table
\* classifies as create, remove and finish.
C4_RowsCountInput ==
    pc = "done" =>
        \A i \in 1..Len(csv_rows) :
            csv_rows[i] =
                <<csv_rows[i][1],
                  InputCount(csv_rows[i][1], "create"),
                  InputCount(csv_rows[i][1], "remove"),
                  InputCount(csv_rows[i][1], "finish")>>

\* C5: with the standard rules an updateCard record is classified finish
\* when its list is a finished list and ignore when it is not, for every set
\* of finished lists, the empty one included.
C5_UpdateCardByFinished ==
    (pc = "return" /\ classify_arg.action = updateCard) =>
        classify_result =
            TripleOf(classify_arg,
                     IF classify_arg.list \in finished_lists
                     THEN "finish" ELSE "ignore")

C5_Witness ==
    /\ pc = "return"
    /\ classify_arg.action = updateCard
    /\ finished_lists = {}
    /\ classify_result = TripleOf(classify_arg, "ignore")

\* C6: with the standard rules a copyCard, createCard, moveCardToBoard or
\* convertToCardFromCheckItem record is classified create and a deleteCard or
\* moveCardFromBoard record is classified remove, whatever its list and
\* whatever the finished lists.
C6_CreateAndRemoveKinds ==
    pc = "return" =>
        /\ classify_arg.action \in CreateTypes
              => classify_result = TripleOf(classify_arg, "create")
        /\ classify_arg.action \in RemoveTypes
              => classify_result = TripleOf(classify_arg, "remove")

C6_Witness ==
    /\ pc = "return"
    /\ classify_arg.action = moveCardFromBoard
    /\ classify_arg.list \in finished_lists
    /\ classify_result = TripleOf(classify_arg, "remove")

\* the one-record runs of the end-to-end scenarios
ScenarioRun(action, finished) ==
    /\ pc = "done"
    /\ raw_actions = <<action>>
    /\ finished_lists = finished
    /\ reject_lists = {}

closed_on_Done ==
    [date |-> 1, action |-> updateCard_closed, card |-> "A", list |-> "Done"]
update_on_Done ==
    [date |-> 1, action |-> updateCard, card |-> "A", list |-> "Done"]
idList_on_Doing ==
    [date |-> 1, action |-> updateCard_idList, card |-> "A", list |-> "Doing"]

\* C7 as stated: the record (2024-01-01, "updateCard:closed", "A", "Done")
\* with finished lists {"Done"} and no excluded lists is classified finish
\* and the pipeline outputs the row [2024-01-01, 0, 0, 1].
C7_QualifiedClosedFinishes ==
    ScenarioRun(closed_on_Done, {"Done"}) =>
        /\ date_event_action = <<TripleOf(closed_on_Done, "finish")>>
        /\ csv_rows = << <<1, 0, 0, 1>> >>

\* C7 amended: the record (2024-01-01, "updateCard", "A", "Done"), whose
\* action kind is the unqualified text, with finished lists {"Done"} and no
\* excluded lists is classified finish and the pipeline outputs the row
\* [2024-01-01, 0, 0, 1].
C7_UnqualifiedUpdateFinishes ==
    ScenarioRun(update_on_Done, {"Done"}) =>
        /\ date_event_action = <<TripleOf(update_on_Done, "finish")>>
        /\ csv_rows = << <<1, 0, 0, 1>> >>

C7_Witness ==
    /\ ScenarioRun(update_on_Done, {"Done"})
    /\ csv_rows = << <<1, 0, 0, 1>> >>

\* C8: the record (2024-01-01, "updateCard:idList", "A", "Doing") with
\* finished lists {"Done"} is classified ignore and the pipeline outputs the
\* row [2024-01-01, 0, 0, 0].
C8_QualifiedIdListIgnoredRow ==
    ScenarioRun(idList_on_Doing, {"Done"}) =>
        /\ date_event_action = <<TripleOf(idList_on_Doing, "ignore")>>
        /\ csv_rows = << <<1, 0, 0, 0>> >>

\* sum of the per-date counts of event over the first k entries of
\* date_counts whose date is d or earlier
RECURSIVE CountsUpTo(_, _, _)
CountsUpTo(k, d, event) ==
    IF k = 0 THEN 0
    ELSE CountsUpTo(k - 1, d, event)
            + (IF date_counts[k].key <= d
               THEN Get(date_counts[k].value, event) ELSE 0)

\* C9: in every row (d, totals) that running_count_iter emits, totals[c] is
\* the sum of the per-date counts of c over all dates <= d, for each
\* category c, a category missing on a date counting as 0.
C9_PrefixSums ==
    \A i \in 1..Len(running_totals) :
        \A event \in Event :
            running_totals[i][2][event]
                = CountsUpTo(Len(date_counts), running_totals[i][1], event)

\* a later row carries forward a count of a category that is missing on the
\* row's own date
C9_Witness ==
    /\ pc = "done"
    /\ \E i \in 2..Len(running_totals) : \E event \in Event :
          /\ event \notin DOMAIN Lookup(date_counts, running_totals[i][1])
          /\ running_totals[i][2][event] >= 2

\* C10: running_count_iter emits exactly one row per distinct date key of its
\* input mapping, in strictly ascending date order, whatever the order in
\* which the dates were inserted.
C10_OneRowPerDateAscending ==
    LET keys == {date_counts[k].key : k \in 1..Len(date_counts)}
        emitted == {running_totals[i][1] : i \in 1..Len(running_totals)}
    IN  /\ \A i, j \in 1..Len(running_totals) :
              i < j => running_totals[i][1] < running_totals[j][1]
        /\ emitted \subseteq keys
        /\ \A d \in keys \ emitted :
              \A i \in 1..Len(running_totals) : running_totals[i][1] < d
        /\ pc = "done" =>
              /\ emitted = keys
              /\ Len(running_totals) = Cardinality(keys)

\* all rows emitted for a mapping whose dates were inserted latest first
C10_Witness ==
    /\ pc = "done"
    /\ Len(date_counts) = MaxDay
    /\ \A k \in 1..(Len(date_counts) - 1) :
          date_counts[k].key > date_counts[k + 1].key

\* C11: across the rows running_count_iter emits for counts produced by the
\* pipeline, the value of each category is non-negative and never decreases
\* from one row to the next.
C11_NonNegativeNonDecreasing ==
    \A i \in 1..Len(running_totals) :
        \A event \in Event :
            /\ running_totals[i][2][event] >= 0
            /\ i > 1 => running_totals[i][2][event] >= running_totals[i - 1][2][event]

\* two rows: one category grows, another keeps the value it had
C11_Witness ==
    /\ pc = "done"
    /\ Len(running_totals) >= 2
    /\ \E e1, e2 \in Event :
          /\ running_totals[2][2][e1] > running_totals[1][2][e1]
          /\ running_totals[2][2][e2] = running_totals[1][2][e2]
          /\ running_totals[1][2][e2] > 0

\* the dates of the (date, event) pairs that were classified and counted
ObservedDates == {date_event_action[j][1] : j \in 1..Len(date_event_action)}

\* C12: the dates of the output rows are exactly the dates of the records
\* that were classified: no row for a day between two observed dates on
\* which nothing was observed, and no observed date without a row.
C12_RowDatesAreObservedDates ==
    LET row_dates == {csv_rows[i][1] : i \in 1..Len(csv_rows)}
    IN  /\ row_dates \subseteq ObservedDates
        /\ pc = "done" =>
              /\ row_dates = ObservedDates
              /\ Len(csv_rows) = Cardinality(ObservedDates)

\* events on the first and the last day only: the day between has no row
C12_Witness ==
    /\ pc = "done"
    /\ ObservedDates = {1, MaxDay}
    /\ Len(csv_rows) = 2
    /\ csv_rows[1][1] = 1
    /\ csv_rows[2][1] = MaxDay

\* C20: each row running_count_iter emits is an independent snapshot: once
\* the consumer holds the row for date d, pulling further rows leaves the
\* mapping of that row unchanged.
C20_RowsAreSnapshots ==
    [][\A i \in 1..Len(running_totals) :
          /\ i <= Len(running_totals')
          /\ running_totals'[i] = running_totals[i]]_vars

\* all rows collected, the first one differing from the last
C20_Witness ==
    /\ pc = "done"
    /\ Len(running_totals) >= 2
    /\ running_totals[1][2] # running_totals[Len(running_totals)][2]

\* C13: pivot_for_csv(good_events, rows) gives one flat row per input row, in
\* the same order: the date, then the row's count of each category of
\* good_events in the order of good_events, 0 for a category the row's
\* mapping lacks; with the enumeration without ignore the ignore count is in
\* no row.
C13_PivotRows ==
    pc = "return" =>
        /\ Len(csv_rows) = Len(running_totals)
        /\ \A i \in 1..Len(csv_rows) :
              LET counts == running_totals[i][2]
              IN  /\ Len(csv_rows[i]) = 1 + Len(call_args)
                  /\ csv_rows[i][1] = running_totals[i][1]
                  /\ \A j \in 1..Len(call_args) :
                        csv_rows[i][j + 1] =
                            IF call_args[j] \in DOMAIN counts
                            THEN counts[call_args[j]] ELSE 0
                  /\ call_args = <<"create", "remove", "finish">> =>
                        csv_rows[i] =
                            <<running_totals[i][1], Get(counts, "create"),
                              Get(counts, "remove"), Get(counts, "finish")>>

\* two rows, the later date first, the first row counting ignore and lacking
\* create
C13_Witness ==
    /\ pc = "return"
    /\ call_args = good_events
    /\ Len(csv_rows) = 2
    /\ running_totals[1][1] > running_totals[2][1]
    /\ "ignore" \in DOMAIN running_totals[1][2]
    /\ "create" \notin DOMAIN running_totals[1][2]
    /\ csv_rows[1][2] = 0

\* the mapping keyed by date rebuilt from flat rows, column j + 1 of a row
\* being the count of events[j]
Unpivot(rows, events) ==
    [d \in {rows[i][1] : i \in 1..Len(rows)} |->
        LET last == CHOOSE i \in 1..Len(rows) :
                        /\ rows[i][1] = d
                        /\ \A k \in 1..Len(rows) : rows[k][1] = d => k <= i
        IN  [e \in {events[j] : j \in 1..Len(events)} |->
                rows[last][1 + CHOOSE j \in 1..Len(events) : events[j] = e]]]

\* C17: for a sequence of running-totals rows (one row per date), the mapping
\* keyed by date rebuilt from the rows of pivot_for_csv has, for every date
\* and every reported category, the count of the original row.
C17_PivotRoundTrip ==
    (/\ pc = "return"
     /\ \A i, k \in 1..Len(running_totals) :
           i # k => running_totals[i][1] # running_totals[k][1])
        => \A i \in 1..Len(running_totals) :
              \A j \in 1..Len(call_args) :
                  Unpivot(csv_rows, call_args)[running_totals[i][1]][call_args[j]]
                      = Get(running_totals[i][2], call_args[j])

\* two dates, with different counts of the same reported category
C17_Witness ==
    /\ pc = "return"
    /\ call_args = good_events
    /\ Len(running_totals) = 2
    /\ running_totals[1][1] # running_totals[2][1]
    /\ Get(running_totals[1][2], "finish") = 2
    /\ Get(running_totals[2][2], "finish") = 0
    /\ Unpivot(csv_rows, call_args)[running_totals[1][1]]["finish"] = 2

WellFormed(document) ==
    /\ Len(document.date) = 5
    /\ document.date[1] \in Dates
    /\ document.date[2] = "T"
    /\ document.date[4] \in {".5", ".000000"}
    /\ document.date[5] = "Z"

\* C15: for a payload whose timestamp does not have the form
\* YYYY-MM-DDTHH:MM:SS.ffffffZ make_action fails: no Action, partial or
\* defaulted, is made of it, the failure ends the run instead of the payload
\* being skipped, and no later payload is normalized, classified or counted.
C15_MalformedTimestampAborts ==
    /\ \A i \in 1..Len(raw_actions) :
          /\ WellFormed(raw_actions[i].raw)
          /\ raw_actions[i].date = raw_actions[i].raw.date[1]
    /\ pc = "raised" =>
          /\ ~WellFormed(call_args)
          /\ ended_by = ValueError
          /\ Len(date_event_action) <= Len(raw_actions)
          /\ date_counts = <<>>
          /\ running_totals = <<>>
          /\ csv_rows = <<>>
    /\ pc # "raised" => ended_by # ValueError

\* a well-formed payload was counted, then one without fraction raised
C15_Witness ==
    /\ pc = "raised"
    /\ Len(date_event_action) = 1
    /\ Len(call_args.date) = 4

Satisfied == {i \in 1..Len(call_args) : ApplyRule(call_args[i], classify_arg)}

\* C18: when the record satisfies two or more rules of the list, the
\* category emitted is that of the satisfied rule that comes first in the
\* list, also when the satisfied rules name different categories.
C18_FirstSatisfiedRuleWins ==
    (pc = "return" /\ Cardinality(Satisfied) >= 2) =>
        classify_result =
            <<classify_arg.date, call_args[SetMin(Satisfied)].event, classify_arg>>

\* two or more rules satisfied that name different categories
C18_Witness ==
    /\ pc = "return"
    /\ Cardinality(Satisfied) >= 2
    /\ \E i, j \in Satisfied : call_args[i].event # call_args[j].event
    /\ classify_result[2] = call_args[SetMin(Satisfied)].event
    /\ \E i \in Satisfied : call_args[i].event # classify_result[2]

\* C19: under a list of several pass rules a record at any position of the
\* stream proceeds to classification iff it satisfies every pass rule of the
\* list, whichever rules earlier records passed or failed.
C19_EveryPassRuleAtEveryPosition ==
    \A i \in 1..Len(raw_actions) :
        passed[i] <=> \A k \in 1..Len(call_args) :
                          ApplyRule(call_args[k], raw_actions[i])

\* the number of input pairs that are exactly (date, event)
PairCount(date, event) ==
    Cardinality({j \in 1..Len(date_event_action) :
                    /\ date_event_action[j][1] = date
                    /\ date_event_action[j][2] = event})

\* C21: whatever the order of the input pairs, the mapping date_by_event
\* makes of their Counter has exactly the distinct observed dates as keys,
\* and for every date and category holds the number of input pairs with
\* that exact (date, category); and the Counter given to date_by_event is
\* left as it was.
C21_BucketsCountPairs ==
    /\ [](pc # "date_by_event" =>
            /\ {date_counts[i].key : i \in 1..Len(date_counts)} = ObservedDates
            /\ Len(date_counts) = Cardinality(ObservedDates)
            /\ \A i \in 1..Len(date_counts) : \A event \in Event :
                  Get(date_counts[i].value, event)
                      = PairCount(date_counts[i].key, event))
    /\ [][date_event_counts' = date_event_counts]_vars

\* pairs out of date order, one pair twice with another date in between, and
\* two categories on one date
C21_Witness ==
    /\ pc = "running"
    /\ Len(date_event_action) = 3
    /\ date_event_action[1][1] > date_event_action[2][1]
    /\ date_event_action[3][1] = date_event_action[2][1]
    /\ date_event_action[3][2] # date_event_action[2][2]
    /\ Len(date_counts) = 2
    /\ \E i \in 1..2 : Cardinality(DOMAIN date_counts[i].value) = 2

\* the categories of the standard rules the classified record satisfies, in
\* rule order
MatchedEvents ==
    LET matches == ClassifyMatches(action_event_rules, classify_arg)
    IN  [i \in 1..Len(matches) |-> matches[i][2]]

\* C22: under the standard rule list and any finished lists, all rules one
\* record satisfies name the same category (an updateCard in a finished list
\* satisfies two rules, both finish), and a record of one of the seven
\* configured kinds satisfies at least one rule; so the category classify
\* returns is the category of every satisfied rule.
C22_StandardRulesAgree ==
    pc = "return" =>
        /\ \A i, j \in 1..Len(MatchedEvents) : MatchedEvents[i] = MatchedEvents[j]
        /\ Cardinality(ConfiguredKinds) = 7
        /\ classify_arg.action \in ConfiguredKinds =>
              /\ MatchedEvents # <<>>
              /\ classify_result # StopIteration
              /\ \A i \in 1..Len(MatchedEvents) : MatchedEvents[i] = classify_result[2]
        /\ (classify_arg.action = updateCard /\ classify_arg.list \in finished_lists)
              => MatchedEvents = <<"finish", "finish">>

\* an updateCard in a finished list: two rules satisfied, both finish
C22_Witness ==
    /\ pc = "return"
    /\ classify_arg.action = updateCard
    /\ classify_arg.list \in finished_lists
    /\ Len(MatchedEvents) = 2
    /\ classify_result[2] = "finish"

====
